---- MODULE Spec2Model ----
(***************************************************************************)
(* Model of the script-to-video alignment worker                           *)
(* (backend/app/workers/alignment.py).                                     *)
(*                                                                         *)
(* Numbers.  The code computes confidences and similarities as floats in   *)
(* [-1, 1].  The model keeps them as integers in thousandths (Unit = 1.0), *)
(* so 0.7 is 700 and "c *= (1 - 0.3)" is (c * 700) \div 1000.  Times are   *)
(* whole seconds.                                                          *)
(*                                                                         *)
(* Objects.  Python lists hold references to dicts.  The model keeps the   *)
(* dicts in heap (reference -> record) and the lists as sequences of       *)
(* references, so that a shallow list copy shares its records.             *)
(***************************************************************************)
EXTENDS Integers, Sequences, FiniteSets, TLC

VARIABLES
    heap,                \* reference -> alignment dict
    alignments,          \* the caller's list of alignment references
    refined_alignments,  \* the list refine_alignment_temporal returned last
    before,              \* heap as it was when the last call started
    before_list,         \* the list that was passed to the last call
    calls,               \* number of refine_alignment_temporal calls made
    report,              \* what validate_alignment_quality returned
    content,             \* the script file's text, as its lines
    script_scenes,       \* what parse_script_file returned
    parsed,              \* parse_script_file has returned
    script_bytes,        \* the script file's bytes
    decoded,             \* how reading the script file ended
    alignment_models,    \* _alignment_models: the names of the cached models
    pc,                  \* per caller: its place in get_sentence_transformer
    model_name,          \* per caller: the name it asked for
    found,               \* per caller: the name was cached at the membership test
    outcome,             \* per caller: how its last call ended
    cached_before,       \* per caller: the cache when its call started
    scenes,              \* the matcher's scenes
    segments,            \* the matcher's transcript segments
    similarity_matrix,   \* cosine_similarity(scene_embeddings, segment_embeddings)
    matched,             \* the alignment list exists
    match_raised,        \* perform_semantic_matching raised
    transcript_data,     \* the transcript handed to the task: segments and words
    transcript_segments, \* what process_transcript_segments returned
    transcript_outcome,  \* how process_transcript_segments ended
    task                 \* align_script_to_video: place, reported state, result

refineVars == <<heap, alignments, refined_alignments, before, before_list, calls>>
validateVars == <<report>>
parseVars == <<content, script_scenes, parsed, script_bytes, decoded>>
cacheVars == <<alignment_models, pc, model_name, found, outcome, cached_before>>
matchVars == <<scenes, segments, similarity_matrix, matched, match_raised>>
taskVars == <<transcript_data, transcript_segments, transcript_outcome, task>>
taskVarsData == <<transcript_data, transcript_segments, transcript_outcome>>

vars == <<refineVars, validateVars, parseVars, cacheVars, matchVars, taskVars>>
notCacheVars == <<refineVars, validateVars, parseVars, matchVars, taskVars>>

(***************************************************************************)
(* Bounds and program constants                                            *)
(***************************************************************************)
MaxAlign == 2            \* longest alignment list drawn as input
MaxCalls == 2            \* refine_alignment_temporal calls in a row
MaxLines == 3            \* longest script, in lines
MaxLineLen == 2          \* longest line, in words
NumModels == 4           \* distinct model names asked for
MaxScenes == 2           \* most scenes handed to the matcher
MaxCells == 6            \* largest similarity matrix drawn, scenes x segments
MaxBase == 4             \* longest transcript, in segments
MaxWords == 4            \* longest transcript, in words
MaxBytes == 3            \* longest script file, in bytes

Unit == 1000             \* 1.0 in thousandths
ALIGNMENT_CONFIDENCE_THRESHOLD == 700
overlap_penalty == 300
ML_MODEL_CACHE_SIZE == 3
TopMatches == 5

Range(s) == {s[i] : i \in DOMAIN s}

Max(a, b) == IF a >= b THEN a ELSE b
Min(a, b) == IF a <= b THEN a ELSE b

(***************************************************************************)
(* get_sentence_transformer                                                *)
(*                                                                         *)
(* One action per statement, so that callers sharing the module-level      *)
(* dict can interleave between any two of them.                            *)
(***************************************************************************)
ModelNames == 1..NumModels

\* len(_alignment_models) >= settings.ML_MODEL_CACHE_SIZE
CacheFullOffByOne(c) == Cardinality(c) > ML_MODEL_CACHE_SIZE
CacheFull(c) == Cardinality(c) >= ML_MODEL_CACHE_SIZE

\* _alignment_models[model_name] = <model>
StoredAlone(c, m) == {m}
Stored(c, m) == c \cup {m}

Call(p, m) ==
    /\ pc[p] = "idle"
    /\ pc' = [pc EXCEPT ![p] = "check"]
    /\ model_name' = [model_name EXCEPT ![p] = m]
    /\ found' = [found EXCEPT ![p] = FALSE]
    /\ outcome' = [outcome EXCEPT ![p] = "none"]
    /\ cached_before' = [cached_before EXCEPT ![p] = alignment_models]
    /\ UNCHANGED alignment_models
    /\ UNCHANGED notCacheVars

\* if model_name not in _alignment_models:
CheckCached(p) ==
    /\ pc[p] = "check"
    /\ IF model_name[p] \in alignment_models
       THEN /\ pc' = [pc EXCEPT ![p] = "return"]
            /\ found' = [found EXCEPT ![p] = TRUE]
       ELSE /\ pc' = [pc EXCEPT ![p] = "check_full"]
            /\ UNCHANGED found
    /\ UNCHANGED <<alignment_models, model_name, outcome, cached_before>>
    /\ UNCHANGED notCacheVars

\* if len(_alignment_models) >= settings.ML_MODEL_CACHE_SIZE:
CheckFull(p) ==
    /\ pc[p] = "check_full"
    /\ pc' = [pc EXCEPT ![p] = IF CacheFull(alignment_models) THEN "clear" ELSE "load"]
    /\ UNCHANGED <<alignment_models, model_name, found, outcome, cached_before>>
    /\ UNCHANGED notCacheVars

\* _alignment_models.clear()
Clear(p) ==
    /\ pc[p] = "clear"
    /\ alignment_models' = {}
    /\ pc' = [pc EXCEPT ![p] = "load"]
    /\ UNCHANGED <<model_name, found, outcome, cached_before>>
    /\ UNCHANGED notCacheVars

\* SentenceTransformer(model_name) returns the model ...
Load(p) ==
    /\ pc[p] = "load"
    /\ pc' = [pc EXCEPT ![p] = "store"]
    /\ UNCHANGED <<alignment_models, model_name, found, outcome, cached_before>>
    /\ UNCHANGED notCacheVars

\* ... or raises, and the exception leaves get_sentence_transformer.
LoadFails(p) ==
    /\ pc[p] = "load"
    /\ pc' = [pc EXCEPT ![p] = "idle"]
    /\ outcome' = [outcome EXCEPT ![p] = "load_error"]
    /\ UNCHANGED <<alignment_models, model_name, found, cached_before>>
    /\ UNCHANGED notCacheVars

Store(p) ==
    /\ pc[p] = "store"
    /\ alignment_models' = Stored(alignment_models, model_name[p])
    /\ pc' = [pc EXCEPT ![p] = "return"]
    /\ UNCHANGED <<model_name, found, outcome, cached_before>>
    /\ UNCHANGED notCacheVars

\* return _alignment_models[model_name]: a KeyError when the name is gone.
Return(p) ==
    /\ pc[p] = "return"
    /\ outcome' = [outcome EXCEPT ![p] =
           IF model_name[p] \in alignment_models THEN "model" ELSE "key_error"]
    /\ pc' = [pc EXCEPT ![p] = "idle"]
    /\ UNCHANGED <<alignment_models, model_name, found, cached_before>>
    /\ UNCHANGED notCacheVars

(***************************************************************************)
(* parse_script_file                                                       *)
(*                                                                         *)
(* A script is the sequence content.split('\n') of its lines and a line is *)
(* the sequence of its whitespace-separated words, so line.strip() and the *)
(* ' ' + line joins are the identity on this form and an empty sequence is *)
(* a blank line.  A text is the sequence of its words.                     *)
(***************************************************************************)
\* Reading the file.  A file is its sequence of bytes and a text the sequence
\* of its code points.  The bytes drawn are "A", 0x80, 0x81, 0xA9 and 0xC3:
\* 0xC3 opens a two-byte UTF-8 sequence that 0x80, 0x81 or 0xA9 completes;
\* cp1252 has no character for 0x81 and reads 0x80 as the euro sign.
ByteValues == {65, 128, 129, 169, 195}

DecodeFailed == [ok |-> FALSE, text |-> <<>>]
Prepend(c, d) == IF d.ok THEN [ok |-> TRUE, text |-> <<c>> \o d.text] ELSE DecodeFailed

RECURSIVE Utf8Decode(_)
Utf8Decode(bs) ==
    IF bs = <<>> THEN [ok |-> TRUE, text |-> <<>>]
    ELSE IF bs[1] < 128 THEN Prepend(bs[1], Utf8Decode(Tail(bs)))
    ELSE IF /\ bs[1] >= 194 /\ bs[1] < 224
            /\ Len(bs) >= 2 /\ bs[2] >= 128 /\ bs[2] < 192
    THEN Prepend((bs[1] - 192) * 64 + (bs[2] - 128), Utf8Decode(Tail(Tail(bs))))
    ELSE DecodeFailed

\* latin-1 and iso-8859-1 are one codec: every byte is its own code point.
Latin1Decode(bs) == [ok |-> TRUE, text |-> bs]

Cp1252Decode(bs) ==
    IF \E k \in DOMAIN bs : bs[k] \in {129, 141, 143, 144, 157} THEN DecodeFailed
    ELSE [ok |-> TRUE, text |-> [k \in DOMAIN bs |-> IF bs[k] = 128 THEN 8364 ELSE bs[k]]]

\* f.read() of the file opened with the encoding
Decode(encoding, bs) ==
    CASE encoding = "utf-8" -> Utf8Decode(bs)
      [] encoding = "cp1252" -> Cp1252Decode(bs)
      [] OTHER -> Latin1Decode(bs)

\* encodings = ['latin-1', 'cp1252', 'iso-8859-1']
encodingsCp1252First == <<"cp1252", "latin-1", "iso-8859-1">>
encodings == <<"latin-1", "cp1252", "iso-8859-1">>

NotRead == [status |-> "none", tried |-> <<>>, encoding |-> "none", text |-> <<>>]

\* for encoding in encodings: try ... break / except UnicodeDecodeError:
\* continue; then raise Exception("Unable to decode script file") when
\* content is None.
RECURSIVE TryEncodings(_, _, _)
TryEncodings(encs, bs, tried) ==
    IF encs = <<>>
    THEN [status |-> "decode_error", tried |-> tried, encoding |-> "none", text |-> <<>>]
    ELSE IF Decode(Head(encs), bs).ok
    THEN [status |-> "read", tried |-> Append(tried, Head(encs)),
          encoding |-> Head(encs), text |-> Decode(Head(encs), bs).text]
    ELSE TryEncodings(Tail(encs), bs, Append(tried, Head(encs)))

\* The try with utf-8 and its except UnicodeDecodeError branch.
ReadScriptFile(bs) ==
    IF Utf8Decode(bs).ok
    THEN [status |-> "read", tried |-> <<"utf-8">>, encoding |-> "utf-8",
          text |-> Utf8Decode(bs).text]
    ELSE TryEncodings(encodings, bs, <<"utf-8">>)

\* The word "INT." stands for whatever one of scene_patterns finds in a line.
MarkerWord == "INT."
Words == {MarkerWord, "a", "b"}

\* re.search(pattern, line, re.IGNORECASE) for some pattern
is_scene_marker(line) == MarkerWord \in Range(line)

CloseScene(scene) ==
    [scene_number |-> scene.scene_number, text |-> scene.text,
     word_count |-> Len(scene.text), markers |-> scene.markers]

\* The state of the loop over the lines: scenes closed so far, the scene in
\* progress and the running scene counter.
ParseStart ==
    [scenes |-> <<>>,
     current_scene |-> [scene_number |-> 1, text |-> <<>>, word_count |-> 0,
                        markers |-> <<>>],
     scene_number |-> 1]

\* if is_scene_marker and current_scene['text'].strip():
ClosesSceneOnAnyMarker(st, line) == is_scene_marker(line)
ClosesScene(st, line) == is_scene_marker(line) /\ st.current_scene.text # <<>>

ParseLine(st, line) ==
    IF line = <<>> THEN st
    ELSE IF ClosesScene(st, line)
    THEN [scenes |-> Append(st.scenes, CloseScene(st.current_scene)),
          current_scene |-> [scene_number |-> st.scene_number, text |-> <<>>,
                             word_count |-> 0, markers |-> <<line>>],
          scene_number |-> st.scene_number + 1]
    ELSE IF is_scene_marker(line)
    THEN [st EXCEPT !.current_scene.markers = Append(@, line)]
    ELSE [st EXCEPT !.current_scene.text = @ \o line]

RECURSIVE ParseLines(_, _)
ParseLines(st, lines) ==
    IF lines = <<>> THEN st
    ELSE ParseLines(ParseLine(st, Head(lines)), Tail(lines))

RECURSIVE AllWords(_)
AllWords(lines) ==
    IF lines = <<>> THEN <<>> ELSE Head(lines) \o AllWords(Tail(lines))

\* if not scenes: the whole content as one scene
NoFallbackScenes(lines) == <<>>
FallbackScenes(lines) ==
    << [scene_number |-> 1, text |-> AllWords(lines),
        word_count |-> Len(AllWords(lines)), markers |-> <<>>] >>

\* The scenes returned for a decoded script.
ParseScriptFile(lines) ==
    LET st == ParseLines(ParseStart, lines)
        all_scenes == IF st.current_scene.text # <<>>
                  THEN Append(st.scenes, CloseScene(st.current_scene))
                  ELSE st.scenes
    IN  IF all_scenes = <<>> THEN FallbackScenes(lines) ELSE all_scenes

(***************************************************************************)
(* process_transcript_segments and create_segments_from_words              *)
(*                                                                         *)
(* A base segment is [start, end, words, confidence] and a word is         *)
(* [word, start, end, confidence]; a text is kept as its number of words.  *)
(* np.mean is the quotient of the sum by the count.                        *)
(***************************************************************************)
window_size == 3
segment_duration == 10

RECURSIVE SumField(_)
SumField(cs) == IF cs = <<>> THEN 0 ELSE Head(cs) + SumField(Tail(cs))

Mean(cs) == SumField(cs) \div Len(cs)

\* The loop of create_segments_from_words: st holds the segments made, the
\* words of the segment in progress and its start.
WordStep(st, word, last_word) ==
    LET current_start == IF st.current_segment = <<>> THEN word.start
                         ELSE st.current_start
        current_segment == Append(st.current_segment, word)
    IN  IF (word.end - current_start) >= segment_duration \/ word = last_word
        THEN [segments |-> Append(st.segments,
                  [start |-> current_start, end |-> word.end,
                   words |-> Len(current_segment),
                   confidence |-> Mean([k \in DOMAIN current_segment |->
                                            current_segment[k].confidence])]),
              current_segment |-> <<>>,
              current_start |-> current_start]
        ELSE [segments |-> st.segments, current_segment |-> current_segment,
              current_start |-> current_start]

RECURSIVE WordLoop(_, _, _)
WordLoop(st, ws, last_word) ==
    IF ws = <<>> THEN st
    ELSE WordLoop(WordStep(st, Head(ws), last_word), Tail(ws), last_word)

create_segments_from_words(words) ==
    IF words = <<>> THEN <<>>
    ELSE WordLoop([segments |-> <<>>, current_segment |-> <<>>, current_start |-> 0],
                  words, words[Len(words)]).segments

\* segments, or the segments made from the words when there are none
BaseSegments(td) ==
    IF td.segments # <<>> THEN td.segments ELSE create_segments_from_words(td.words)

\* raise Exception("No transcript segments or words available")
NoTranscriptDataEither(td) == td.segments = <<>> \/ td.words = <<>>
NoTranscriptData(td) == td.segments = <<>> /\ td.words = <<>>

SingleSegment(base, i) ==
    [segment_id |-> <<"single", i - 1>>,
     start_time |-> base[i].start, end_time |-> base[i].end,
     words |-> base[i].words, confidence |-> base[i].confidence,
     window_type |-> "single"]

WindowSegment(base, i) ==
    LET win == SubSeq(base, i, i + window_size - 1)
    IN  [segment_id |-> <<"window", i - 1, i + window_size - 2>>,
         start_time |-> base[i].start, end_time |-> base[i + window_size - 1].end,
         words |-> SumField([k \in DOMAIN win |-> win[k].words]),
         confidence |-> Mean([k \in DOMAIN win |-> win[k].confidence]),
         window_type |-> "window"]

\* if i + window_size <= len(segments); i counts from 1 here, so the code's
\* i is i - 1.
WindowFitsStrict(i, n) == i - 1 + window_size < n
WindowFits(i, n) == i - 1 + window_size <= n

RECURSIVE WindowSegments(_, _)
WindowSegments(base, i) ==
    IF i > Len(base) THEN <<>>
    ELSE <<SingleSegment(base, i)>>
         \o (IF WindowFits(i, Len(base)) THEN <<WindowSegment(base, i)>> ELSE <<>>)
         \o WindowSegments(base, i + 1)

process_transcript_segments(td) == WindowSegments(BaseSegments(td), 1)

(***************************************************************************)
(* perform_semantic_matching                                               *)
(*                                                                         *)
(* A scene is kept as its number and word count, a segment as its id,      *)
(* times and confidence; the display-only scene_text preview is left out.  *)
(* Indices count from 1 here and from 0 in the code.                       *)
(***************************************************************************)
Perms(n) == {f \in [1..n -> 1..n] : \A i, j \in 1..n : i # j => f[i] # f[j]}

\* np.argsort(row)[::-1]: the indices by descending value.  The default sort
\* kind is not stable, so equal values may come in any order.
Rankings(row) ==
    {f \in Perms(Len(row)) :
        \A i, j \in 1..Len(row) : i < j => row[f[i]] >= row[f[j]]}

\* [:5]
TopIndices(ranking) == SubSeq(ranking, 1, Min(TopMatches, Len(ranking)))

\* top_indices[1:3]
AlternativeIndicesFromBest(top) == SubSeq(top, 1, Min(2, Len(top)))
AlternativeIndices(top) == SubSeq(top, 2, Min(3, Len(top)))

\* estimated_words = duration / 60 * 150; both word counts are doubled to
\* stay in whole numbers.
compute_length_similarity(scene, segment) ==
    LET scene_words2 == 2 * scene.word_count
        estimated_words2 == 5 * (segment.end_time - segment.start_time)
    IN  IF estimated_words2 = 0 THEN 0
        ELSE (Min(scene_words2, estimated_words2) * Unit)
                \div Max(scene_words2, estimated_words2)

Abs(x) == IF x < 0 THEN -x ELSE x

\* 1 - |scene_idx / max(1, total_scenes - 1) - segment_idx / max(1, total_segments - 1)|
compute_position_similarity(scene_idx, segment_idx, total_scenes, total_segments) ==
    LET A == Max(1, total_scenes - 1)
        B == Max(1, total_segments - 1)
    IN  (Unit * (A * B - Abs(scene_idx * B - segment_idx * A))) \div (A * B)

\* 0.5 semantic + 0.2 length + 0.2 position + 0.1 transcript
FinalConfidence(f) ==
    (5 * f.semantic_similarity + 2 * f.length_similarity
        + 2 * f.position_similarity + f.transcript_confidence) \div 10

ConfidenceFactors(scs, segs, sim, i, best) ==
    [semantic_similarity |-> sim[i][best],
     length_similarity |-> compute_length_similarity(scs[i], segs[best]),
     position_similarity |->
        compute_position_similarity(i - 1, best - 1, Len(scs), Len(segs)),
     transcript_confidence |-> segs[best].confidence]

\* Indices read in one iteration: top_indices[0] and top_indices[1:3].
UsedIndices(ranking) == SubSeq(ranking, 1, Min(3, Len(TopIndices(ranking))))

\* similarity_matrix[i], top_indices[0] or segments[idx] is out of range.
IndexErrorAt(segs, sim, i, ranking) ==
    \/ i > Len(sim)
    \/ TopIndices(ranking) = <<>>
    \/ \E k \in DOMAIN UsedIndices(ranking) : UsedIndices(ranking)[k] > Len(segs)

\* The alignment built for scene i from its ranking of the segments.
MatchScene(scs, segs, sim, i, ranking) ==
    LET top_indices == TopIndices(ranking)
        best_match_idx == top_indices[1]
        alt == AlternativeIndices(top_indices)
    IN  [scene_number |-> scs[i].scene_number,
         matched_segment_id |-> segs[best_match_idx].segment_id,
         video_start_time |-> segs[best_match_idx].start_time,
         video_end_time |-> segs[best_match_idx].end_time,
         confidence |-> FinalConfidence(ConfidenceFactors(scs, segs, sim, i, best_match_idx)),
         confidence_factors |-> ConfidenceFactors(scs, segs, sim, i, best_match_idx),
         alternative_matches |->
            [k \in DOMAIN alt |->
                [segment_id |-> segs[alt[k]].segment_id,
                 start_time |-> segs[alt[k]].start_time,
                 end_time |-> segs[alt[k]].end_time,
                 confidence |-> sim[i][alt[k]]]],
         temporal_conflict |-> "absent",
         manual_review_required |-> "absent",
         flagged_reason |-> "absent"]

(***************************************************************************)
(* refine_alignment_temporal                                               *)
(***************************************************************************)

\* list.sort(key=scene_number) is stable: r goes after every element whose
\* scene number is not larger.
InsertByScene(h, s, r) ==
    LET k == Cardinality({i \in DOMAIN s : h[s[i]].scene_number <= h[r].scene_number})
    IN  SubSeq(s, 1, k) \o <<r>> \o SubSeq(s, k + 1, Len(s))

RECURSIVE SortByScene(_, _)
SortByScene(h, s) ==
    IF s = <<>> THEN <<>>
    ELSE InsertByScene(h, SortByScene(h, SubSeq(s, 1, Len(s) - 1)), s[Len(s)])

\* current['confidence'] *= (1 - overlap_penalty)
Penalize(c) == (c * (Unit - overlap_penalty)) \div Unit

\* Index of the first alternative whose start_time >= prev_end, 0 if none.
LastAlternative(alts, prev_end) ==
    LET ok == {k \in DOMAIN alts : alts[k].start_time >= prev_end}
    IN  IF ok = {} THEN 0 ELSE CHOOSE k \in ok : \A j \in ok : k >= j
FirstAlternative(alts, prev_end) ==
    LET ok == {k \in DOMAIN alts : alts[k].start_time >= prev_end}
    IN  IF ok = {} THEN 0 ELSE CHOOSE k \in ok : \A j \in ok : k <= j

UseAlternativeKeepConflict(a, alt) ==
    [a EXCEPT !.video_start_time = alt.start_time,
              !.video_end_time = alt.end_time,
              !.matched_segment_id = alt.segment_id,
              !.confidence = alt.confidence]
UseAlternative(a, alt) ==
    [a EXCEPT !.video_start_time = alt.start_time,
              !.video_end_time = alt.end_time,
              !.matched_segment_id = alt.segment_id,
              !.confidence = alt.confidence,
              !.temporal_conflict = "false"]

OverlapsOrTouches(current, previous) ==
    current.video_start_time <= previous.video_end_time
Overlaps(current, previous) ==
    current.video_start_time < previous.video_end_time

\* One iteration of the loop over i = 1 .. len-1 (i counts from 2 here).
RepairStep(h, refs, i) ==
    LET current == h[refs[i]]
        previous == h[refs[i - 1]]
    IN  IF Overlaps(current, previous)
        THEN LET penalized == [current EXCEPT !.confidence = Penalize(@),
                                              !.temporal_conflict = "true"]
                 k == FirstAlternative(penalized.alternative_matches,
                                       previous.video_end_time)
             IN  [h EXCEPT ![refs[i]] =
                     IF k = 0 THEN penalized
                     ELSE UseAlternative(penalized, penalized.alternative_matches[k])]
        ELSE h

RECURSIVE RepairPass(_, _, _)
RepairPass(h, refs, i) ==
    IF i > Len(refs) THEN h
    ELSE RepairPass(RepairStep(h, refs, i), refs, i + 1)

NeedsReviewInclusive(a) == a.confidence <= ALIGNMENT_CONFIDENCE_THRESHOLD
NeedsReview(a) == a.confidence < ALIGNMENT_CONFIDENCE_THRESHOLD

FlagLowConfidence(h, refs) ==
    [r \in DOMAIN h |->
        IF r \in Range(refs)
        THEN IF NeedsReview(h[r])
             THEN [h[r] EXCEPT !.manual_review_required = "true",
                               !.flagged_reason = "low_confidence_alignment"]
             ELSE [h[r] EXCEPT !.manual_review_required = "false"]
        ELSE h[r]]

\* The list returned (a sorted shallow copy) and the heap after the call.
RefinedList(h, refs) == SortByScene(h, refs)
RefinedHeap(h, refs) ==
    FlagLowConfidence(RepairPass(h, RefinedList(h, refs), 2), RefinedList(h, refs))

(***************************************************************************)
(* validate_alignment_quality                                              *)
(*                                                                         *)
(* The means and ratios are kept as numerators over the common denominator *)
(* D = max(total_scenes, 1), so the comparisons with 0.6, 0.5 and 0.8 are  *)
(* exact; the reported values are the quotients.                           *)
(***************************************************************************)
RECURSIVE SumConfidence(_, _)
SumConfidence(h, refs) ==
    IF refs = <<>> THEN 0
    ELSE h[refs[1]].confidence + SumConfidence(h, Tail(refs))

IsHigh(a) == a.confidence > 800
IsMediumExclusive(a) == 500 < a.confidence /\ a.confidence < 800
IsMedium(a) == 500 <= a.confidence /\ a.confidence <= 800
IsLow(a) == a.confidence < 500
\* a.get('temporal_conflict', False)
HasConflict(a) == a.temporal_conflict = "true"

CountHigh(h, refs) == Cardinality({i \in DOMAIN refs : IsHigh(h[refs[i]])})
CountMedium(h, refs) == Cardinality({i \in DOMAIN refs : IsMedium(h[refs[i]])})
CountLow(h, refs) == Cardinality({i \in DOMAIN refs : IsLow(h[refs[i]])})
CountConflicts(h, refs) == Cardinality({i \in DOMAIN refs : HasConflict(h[refs[i]])})

\* Numerators of quality_factors over D = Max(total_scenes, 1).
AverageConfidenceN(h, refs) == SumConfidence(h, refs)
HighConfidenceRatioN(h, refs) ==
    IF Len(refs) > 0 THEN CountHigh(h, refs) * Unit ELSE 0
TemporalConsistencyN(h, refs) ==
    IF Len(refs) > 0 THEN (Len(refs) - CountConflicts(h, refs)) * Unit
    ELSE Unit

\* 10 * D * overall_score
OverallScoreN(h, refs) ==
    5 * AverageConfidenceN(h, refs) + 3 * HighConfidenceRatioN(h, refs)
        + 2 * TemporalConsistencyN(h, refs)

NeedsManualReviewAll(h, refs) ==
    LET total_scenes == Len(refs)
        D == Max(total_scenes, 1)
    IN  /\ OverallScoreN(h, refs) < 6 * Unit * D
        /\ 10 * CountLow(h, refs) > 3 * total_scenes
        /\ 10 * CountConflicts(h, refs) > total_scenes
NeedsManualReview(h, refs) ==
    LET total_scenes == Len(refs)
        D == Max(total_scenes, 1)
    IN  \/ OverallScoreN(h, refs) < 6 * Unit * D
        \/ 10 * CountLow(h, refs) > 3 * total_scenes
        \/ 10 * CountConflicts(h, refs) > total_scenes

\* generate_alignment_recommendations
Recommendations(h, refs) ==
    LET D == Max(Len(refs), 1)
        lows == CountLow(h, refs)
    IN  (IF AverageConfidenceN(h, refs) < 600 * D THEN <<"review_script_content">> ELSE <<>>)
        \o (IF HighConfidenceRatioN(h, refs) < 500 * D THEN <<"many_low_confidence">> ELSE <<>>)
        \o (IF TemporalConsistencyN(h, refs) < 800 * D THEN <<"temporal_order_issues">> ELSE <<>>)
        \o (IF lows > 0 THEN <<"scenes_need_manual_review">> ELSE <<>>)

ValidateQuality(h, refs) ==
    LET D == Max(Len(refs), 1)
    IN  [status |-> "success",
         quality_score |-> OverallScoreN(h, refs) \div (10 * D),
         average_confidence |-> AverageConfidenceN(h, refs) \div D,
         high_confidence_ratio |-> HighConfidenceRatioN(h, refs) \div D,
         temporal_consistency |-> TemporalConsistencyN(h, refs) \div D,
         total_scenes |-> Len(refs),
         high_confidence |-> CountHigh(h, refs),
         medium_confidence |-> CountMedium(h, refs),
         low_confidence |-> CountLow(h, refs),
         temporal_conflicts |-> CountConflicts(h, refs),
         needs_manual_review |-> NeedsManualReview(h, refs),
         recommendations |-> Recommendations(h, refs)]

NoReport ==
    [status |-> "none", quality_score |-> 0, average_confidence |-> 0,
     high_confidence_ratio |-> 0, temporal_consistency |-> 0, total_scenes |-> 0,
     high_confidence |-> 0, medium_confidence |-> 0, low_confidence |-> 0,
     temporal_conflicts |-> 0, needs_manual_review |-> FALSE,
     recommendations |-> <<>>]

(***************************************************************************)
(* align_script_to_video                                                   *)
(*                                                                         *)
(* task.pc names the stage about to run.  A stage is its update_state call *)
(* and its work; task.runs counts how often each stage was entered.        *)
(***************************************************************************)
\* No value returned (yet).  A key the returned dict does not have reads
\* "absent".
NoResult ==
    [status |-> "none", alignments |-> <<>>, script_scenes_count |-> 0,
     transcript_segments_count |-> 0, matched_scenes |-> 0, average_confidence |-> 0,
     requires_manual_review |-> "absent"]

StageNames == <<"parsing_script", "processing_transcript", "computing_embeddings",
                "matching_scenes", "refining_alignment">>
StagePercent == <<10, 30, 50, 70, 90>>

StageIndex(name) == CHOOSE k \in DOMAIN StageNames : StageNames[k] = name
NextStageSkipsRefining(name) ==
    IF StageIndex(name) < Len(StageNames) - 1 THEN StageNames[StageIndex(name) + 1]
    ELSE "completed"
NextStage(name) ==
    IF StageIndex(name) < Len(StageNames) THEN StageNames[StageIndex(name) + 1]
    ELSE "completed"

\* current_task.update_state(state="PROGRESS", meta={percent, stage, ...})
Progress(t, percent, stage) ==
    [t EXCEPT !.state = "PROGRESS", !.percent = percent, !.stage = stage]

\* Entering a stage: its update_state, and one more run of it.
EnterStage(t) ==
    [Progress(t, StagePercent[StageIndex(t.pc)], t.pc) EXCEPT !.runs[t.pc] = @ + 1]

\* The stage returned and the next one is due.
StageDone(t) == [EnterStage(t) EXCEPT !.pc = NextStage(t.pc)]

\* except Exception: update_state(state="FAILURE", meta={error, stage:
\* "alignment"}); raise.  The meta holds no percent (0 here).
OnExceptionReturnsPartial(t) ==
    [t EXCEPT !.state = "FAILURE", !.percent = 0, !.stage = "alignment",
              !.pc = "returned", !.result = [NoResult EXCEPT !.status = "failed"]]
OnException(t) ==
    [t EXCEPT !.state = "FAILURE", !.percent = 0, !.stage = "alignment",
              !.raised = TRUE, !.pc = "failed"]

\* get_sentence_transformer run to its end with no other caller: the cache
\* it leaves.
CacheAfterGet(c, m) ==
    IF m \in c THEN c ELSE Stored(IF CacheFull(c) THEN {} ELSE c, m)

\* len([a for a in refined_alignments if a["confidence"] > threshold])
MatchedScenes(h, refs) ==
    Cardinality({i \in DOMAIN refs : h[refs[i]].confidence > ALIGNMENT_CONFIDENCE_THRESHOLD})

SuccessResult(h, refs, n_scenes, n_segments) ==
    [status |-> "success",
     alignments |-> refs,
     script_scenes_count |-> n_scenes,
     transcript_segments_count |-> n_segments,
     matched_scenes |-> MatchedScenes(h, refs),
     average_confidence |-> IF refs # <<>> THEN SumConfidence(h, refs) \div Len(refs) ELSE 0,
     requires_manual_review |-> "absent"]

(***************************************************************************)
(* Inputs of the refiner specification                                     *)
(***************************************************************************)
\* Transcript segments the alignments point at: the second follows the
\* first, the third overlaps the second.
SegTimes == << [start_time |-> 0,  end_time |-> 5],
               [start_time |-> 5,  end_time |-> 15],
               [start_time |-> 10, end_time |-> 20] >>
SegIds == DOMAIN SegTimes

ConfVals == {600, 700, 1000}
\* The matcher ranks alternatives by descending similarity.
AltConfByRank == <<900, 400>>

AltSeqs(primary) ==
    LET others == SegIds \ {primary}
    IN  {<<>>} \cup {<<a>> : a \in others}
        \cup {p \in others \X others : p[1] # p[2]}

MkAlt(seg, rank) ==
    [segment_id |-> seg, start_time |-> SegTimes[seg].start_time,
     end_time |-> SegTimes[seg].end_time, confidence |-> AltConfByRank[rank]]

MkAlignment(num, seg, conf, altsegs) ==
    [scene_number |-> num,
     matched_segment_id |-> seg,
     video_start_time |-> SegTimes[seg].start_time,
     video_end_time |-> SegTimes[seg].end_time,
     confidence |-> conf,
     alternative_matches |-> [k \in DOMAIN altsegs |-> MkAlt(altsegs[k], k)],
     temporal_conflict |-> "absent",
     manual_review_required |-> "absent",
     flagged_reason |-> "absent"]

\* Scene numberings: document order, the order reversed, and a repeated
\* first number.
Numberings(n) ==
    { [i \in 1..n |-> i], [i \in 1..n |-> n + 1 - i],
      [i \in 1..n |-> IF i = 1 THEN 1 ELSE i - 1] }

AlignChoices == {<<s, c, a>> : s \in SegIds, c \in ConfVals, a \in UNION {AltSeqs(p) : p \in SegIds}}

IdleParse ==
    /\ content = <<>>
    /\ script_scenes = <<>>
    /\ parsed = FALSE
    /\ script_bytes = <<>>
    /\ decoded = NotRead

IdleTask ==
    /\ transcript_data = [segments |-> <<>>, words |-> <<>>]
    /\ transcript_segments = <<>>
    /\ transcript_outcome = "none"
    /\ task = [pc |-> "idle", state |-> "PENDING", percent |-> 0, stage |-> "none",
               raised |-> FALSE, runs |-> <<>>, result |-> NoResult]

IdleCache ==
    /\ alignment_models = {}
    /\ pc = <<>>
    /\ model_name = <<>>
    /\ found = <<>>
    /\ outcome = <<>>
    /\ cached_before = <<>>

InitRefine ==
    \E n \in 0..MaxAlign :
      \E num \in Numberings(n) :
        \E pick \in [1..n -> {x \in AlignChoices : x[3] \in AltSeqs(x[1])}] :
          /\ heap = [r \in 1..n |-> MkAlignment(num[r], pick[r][1], pick[r][2], pick[r][3])]
          /\ alignments = [r \in 1..n |-> r]
          /\ refined_alignments = <<>>
          /\ before = heap
          /\ before_list = alignments
          /\ calls = 0
          /\ report = NoReport
          /\ IdleParse
          /\ IdleCache
          /\ scenes = <<>>
          /\ segments = <<>>
          /\ similarity_matrix = <<>>
          /\ matched = TRUE
          /\ match_raised = FALSE
          /\ IdleTask

\* refined = refine_alignment_temporal(alignments, ...), then again on its
\* own output.
Refine ==
    /\ matched
    /\ calls < MaxCalls
    /\ LET arg == IF calls = 0 THEN alignments ELSE refined_alignments
       IN  /\ before' = heap
           /\ before_list' = arg
           /\ refined_alignments' = RefinedList(heap, arg)
           /\ heap' = RefinedHeap(heap, arg)
    /\ calls' = calls + 1
    /\ UNCHANGED <<alignments, validateVars, parseVars, cacheVars, matchVars, taskVars>>

\* validate_alignment_quality on the caller's list, or on the refined list
\* once there is one.
Validate ==
    /\ matched
    /\ report.status = "none"
    /\ report' = ValidateQuality(heap, IF calls = 0 THEN alignments ELSE refined_alignments)
    /\ UNCHANGED <<refineVars, parseVars, cacheVars, matchVars, taskVars>>

NextRefine == Refine \/ Validate

SpecRefine == InitRefine /\ [][NextRefine]_vars

(***************************************************************************)
(* Claims about the refiner and the validator (SpecRefine)                 *)
(***************************************************************************)
Refined == {heap[refined_alignments[i]] : i \in DOMAIN refined_alignments}

\* C1: refining the refiner's own output changes nothing: after the second
\* call the list and every record are what the first call returned.
C1_RefineIdempotent ==
    calls = 2 => (refined_alignments = before_list /\ heap = before)

\* C5: after refinement an alignment is flagged for manual review, with
\* reason low_confidence_alignment, exactly when its final confidence is
\* strictly below the threshold; otherwise manual_review_required is false.
C5_FlagIffBelowThreshold ==
    calls >= 1 =>
        \A a \in Refined :
            /\ (a.manual_review_required = "true"
                    /\ a.flagged_reason = "low_confidence_alignment")
                 <=> a.confidence < ALIGNMENT_CONFIDENCE_THRESHOLD
            /\ a.confidence >= ALIGNMENT_CONFIDENCE_THRESHOLD
                 => a.manual_review_required = "false"

\* C5 witness: a penalized alignment ends exactly on the threshold and is
\* not flagged, next to one below the threshold that is.
C5_Witness ==
    /\ calls = 1
    /\ \E a \in Refined :
          /\ a.confidence = ALIGNMENT_CONFIDENCE_THRESHOLD
          /\ a.temporal_conflict = "true"
          /\ a.manual_review_required = "false"
    /\ \E a \in Refined :
          /\ a.confidence < ALIGNMENT_CONFIDENCE_THRESHOLD
          /\ a.manual_review_required = "true"

\* C6: the records the caller passed in are unchanged by the call.
C6_InputUnchanged ==
    calls = 1 => \A i \in DOMAIN alignments : heap[alignments[i]] = before[alignments[i]]

\* C3: an empty list validates to total_scenes = 0, every ratio 0 and
\* needs_manual_review = false.
C3_EmptyValidation ==
    (report.status = "success" /\ alignments = <<>>) =>
        /\ report.total_scenes = 0
        /\ report.average_confidence = 0
        /\ report.high_confidence_ratio = 0
        /\ report.temporal_consistency = 0
        /\ report.needs_manual_review = FALSE

\* Scene i of the refined list as it was handed to the last call, the end of
\* the scene before it as that call left it, and the alternates of scene i
\* that start at or after that end.
CurrentBefore(i) == before[refined_alignments[i]]
PreviousEnd(i) == heap[refined_alignments[i - 1]].video_end_time
StartsBeforePreviousEnd(i) == CurrentBefore(i).video_start_time < PreviousEnd(i)
FittingAlternates(i) ==
    {k \in DOMAIN CurrentBefore(i).alternative_matches :
        CurrentBefore(i).alternative_matches[k].start_time >= PreviousEnd(i)}
UnresolvedOverlaps ==
    {i \in 2..Len(refined_alignments) :
        StartsBeforePreviousEnd(i) /\ FittingAlternates(i) = {}}

\* C19: a scene that starts strictly before the refined end of the scene
\* before it and has no alternate starting at or after that end keeps its
\* times and segment, carries temporal_conflict = true and has 0.7 times
\* the confidence it came with; these are the only scenes with the flag set,
\* and a validation of the refined list counts exactly them.
C19_UnresolvedOverlapPenalized ==
    /\ [](calls >= 1 =>
            \A i \in DOMAIN refined_alignments :
               LET a == heap[refined_alignments[i]]
               IN  /\ a.temporal_conflict = "true" <=> i \in UnresolvedOverlaps
                   /\ i \in UnresolvedOverlaps =>
                         /\ a.confidence = (CurrentBefore(i).confidence * 700) \div 1000
                         /\ a.video_start_time = CurrentBefore(i).video_start_time
                         /\ a.video_end_time = CurrentBefore(i).video_end_time
                         /\ a.matched_segment_id = CurrentBefore(i).matched_segment_id)
    /\ [][(calls >= 1 /\ report.status = "none" /\ report'.status = "success")
            => report'.temporal_conflicts = Cardinality(UnresolvedOverlaps)]_vars

\* C19 witness: one call left an overlapping scene without a fitting
\* alternate, and the validation counted one conflict.
C19_Witness ==
    /\ calls = 1
    /\ Cardinality(UnresolvedOverlaps) = 1
    /\ \E i \in UnresolvedOverlaps : CurrentBefore(i).alternative_matches # <<>>
    /\ report.status = "success"
    /\ report.temporal_conflicts = 1

\* C20: a scene that starts before the refined end of the scene before it
\* and has an alternate starting at or after that end takes the times, the
\* segment and the confidence of the first such alternate in rank order,
\* with temporal_conflict = false.
C20_FirstFittingAlternate ==
    calls >= 1 =>
        \A i \in 2..Len(refined_alignments) :
            (StartsBeforePreviousEnd(i) /\ FittingAlternates(i) # {}) =>
                LET k == CHOOSE j \in FittingAlternates(i) :
                            \A l \in FittingAlternates(i) : j <= l
                    alt == CurrentBefore(i).alternative_matches[k]
                    a == heap[refined_alignments[i]]
                IN  /\ a.video_start_time = alt.start_time
                    /\ a.video_end_time = alt.end_time
                    /\ a.matched_segment_id = alt.segment_id
                    /\ a.confidence = alt.confidence
                    /\ a.temporal_conflict = "false"

\* C20 witness: both alternates of an overlapping scene fit and the scene
\* took the first one.
C20_Witness ==
    /\ calls = 1
    /\ \E i \in 2..Len(refined_alignments) :
          /\ StartsBeforePreviousEnd(i)
          /\ Cardinality(FittingAlternates(i)) = 2
          /\ heap[refined_alignments[i]].matched_segment_id
                = CurrentBefore(i).alternative_matches[1].segment_id
          /\ heap[refined_alignments[i]].temporal_conflict = "false"

\* C21: after refinement every alignment has a temporal_conflict value of
\* its own, and it is false for the first scene and for every scene that
\* does not start before the end of the scene before it.
C21_ConflictAlwaysExplicit ==
    calls >= 1 =>
        \A i \in DOMAIN refined_alignments :
            LET a == heap[refined_alignments[i]]
            IN  /\ a.temporal_conflict \in {"true", "false"}
                /\ (i = 1 \/ ~StartsBeforePreviousEnd(i)) => a.temporal_conflict = "false"

\* C29: after one refinement of lists without temporal_conflict fields, a
\* scene after the first has temporal_conflict = true exactly when its final
\* start is strictly before the final end of the scene before it; the first
\* scene is never marked and keeps its times, segment and confidence.
C29_ConflictIffFinalOverlap ==
    calls = 1 =>
        /\ \A i \in 2..Len(refined_alignments) :
              heap[refined_alignments[i]].temporal_conflict = "true"
                <=> heap[refined_alignments[i]].video_start_time
                       < heap[refined_alignments[i - 1]].video_end_time
        /\ refined_alignments # <<>> =>
              LET a == heap[refined_alignments[1]]
                  b == before[refined_alignments[1]]
              IN  /\ a.temporal_conflict # "true"
                  /\ a.video_start_time = b.video_start_time
                  /\ a.video_end_time = b.video_end_time
                  /\ a.matched_segment_id = b.matched_segment_id
                  /\ a.confidence = b.confidence

\* C29 witness: the second of two scenes started before the first's end, was
\* moved to an alternate of lower confidence and is now clear of the first.
C29_Witness ==
    /\ calls = 1
    /\ Len(refined_alignments) = 2
    /\ before[refined_alignments[2]].video_start_time
          < heap[refined_alignments[1]].video_end_time
    /\ heap[refined_alignments[2]].video_start_time
          >= heap[refined_alignments[1]].video_end_time
    /\ heap[refined_alignments[2]].temporal_conflict = "false"
    /\ heap[refined_alignments[2]].confidence < before[refined_alignments[2]].confidence

(***************************************************************************)
(* The script segmenter on its own (SpecParse)                             *)
(***************************************************************************)
RECURSIVE SeqsUpTo(_, _)
SeqsUpTo(S, n) ==
    IF n = 0 THEN {<<>>}
    ELSE LET shorter == SeqsUpTo(S, n - 1)
         IN  shorter \cup {Append(q, x) : q \in {t \in shorter : Len(t) = n - 1}, x \in S}

\* The lines drawn: up to MaxLineLen words, no word twice in a line.
Lines ==
    {l \in SeqsUpTo(Words, MaxLineLen) : \A i, j \in DOMAIN l : i # j => l[i] # l[j]}
Scripts == SeqsUpTo(Lines, MaxLines)

IdleRefine ==
    /\ heap = <<>>
    /\ alignments = <<>>
    /\ refined_alignments = <<>>
    /\ before = <<>>
    /\ before_list = <<>>
    /\ calls = 0
    /\ report = NoReport

IdleMatch ==
    /\ scenes = <<>>
    /\ segments = <<>>
    /\ similarity_matrix = <<>>
    /\ matched = FALSE
    /\ match_raised = FALSE

InitParse ==
    /\ content \in Scripts
    /\ script_scenes = <<>>
    /\ parsed = FALSE
    /\ script_bytes = <<>>
    /\ decoded = NotRead
    /\ IdleRefine
    /\ IdleCache
    /\ IdleMatch
    /\ IdleTask

Parse ==
    /\ ~parsed
    /\ script_scenes' = ParseScriptFile(content)
    /\ parsed' = TRUE
    /\ UNCHANGED <<content, script_bytes, decoded, refineVars, validateVars, cacheVars,
                   matchVars, taskVars>>

NextParse == Parse

SpecParse == InitParse /\ [][NextParse]_vars

\* C4: the k-th scene returned has scene_number k.
C4_ScenesNumberedInOrder ==
    parsed => \A k \in DOMAIN script_scenes : script_scenes[k].scene_number = k

IsMarkerLine(line) == is_scene_marker(line)
IsTextLine(line) == ~is_scene_marker(line)

RECURSIVE SceneTexts(_)
SceneTexts(ss) == IF ss = <<>> THEN <<>> ELSE Head(ss).text \o SceneTexts(Tail(ss))

RECURSIVE SceneMarkers(_)
SceneMarkers(ss) == IF ss = <<>> THEN <<>> ELSE Head(ss).markers \o SceneMarkers(Tail(ss))

\* C12: for a script with at least one marker line, the scene texts in
\* order, put end to end, are the words of the non-marker lines in their
\* original order, and the scenes' markers lists in order are the marker
\* lines in their original order: every marker line is in exactly one
\* scene's markers and no text line is lost or repeated.
C12_ContentPreserved ==
    (parsed /\ \E k \in DOMAIN content : IsMarkerLine(content[k])) =>
        /\ SceneTexts(script_scenes) = AllWords(SelectSeq(content, IsTextLine))
        /\ SceneMarkers(script_scenes) = SelectSeq(content, IsMarkerLine)

\* The scan closed at least one scene: some line that is not a marker line
\* has words.
HasText == AllWords(SelectSeq(content, IsTextLine)) # <<>>

\* The marker lines ahead of the first line of text.
RECURSIVE LeadingMarkers(_)
LeadingMarkers(lines) ==
    IF lines = <<>> THEN <<>>
    ELSE IF IsMarkerLine(Head(lines)) THEN <<Head(lines)>> \o LeadingMarkers(Tail(lines))
    ELSE IF Head(lines) = <<>> THEN LeadingMarkers(Tail(lines))
    ELSE <<>>

\* C22: marker lines met before the scene in progress has text go into that
\* scene's markers and close nothing: the first scene holds all the marker
\* lines ahead of the first text, no scene the scan emits has empty text, and
\* there are never more scenes than marker lines plus one.
C22_NoEmptyScenes ==
    parsed =>
        /\ Len(script_scenes) <= Len(SelectSeq(content, IsMarkerLine)) + 1
        /\ HasText =>
              /\ \A k \in DOMAIN script_scenes :
                    /\ script_scenes[k].text # <<>>
                    /\ script_scenes[k].word_count = Len(script_scenes[k].text)
              /\ script_scenes[1].markers = LeadingMarkers(content)

\* C22 witness: two marker lines, then text: one scene with both markers.
C22_Witness ==
    /\ parsed
    /\ Len(content) = 3
    /\ IsMarkerLine(content[1]) /\ IsMarkerLine(content[2])
    /\ Len(script_scenes) = 1
    /\ Len(script_scenes[1].markers) = 2
    /\ script_scenes[1].text # <<>>

\* C13: at least one scene is always returned; a script without a marker
\* line, and a script whose scan closes no scene (only marker lines, only
\* blank lines), gives exactly one scene, numbered 1, with no markers and
\* with all the words of the input as its text.
C13_AtLeastOneScene ==
    parsed =>
        /\ Len(script_scenes) >= 1
        /\ ((\A k \in DOMAIN content : IsTextLine(content[k]))
                \/ AllWords(SelectSeq(content, IsTextLine)) = <<>>)
             => /\ Len(script_scenes) = 1
                /\ script_scenes[1].scene_number = 1
                /\ script_scenes[1].markers = <<>>
                /\ script_scenes[1].text = AllWords(content)
                /\ script_scenes[1].word_count = Len(AllWords(content))

\* C13 witness: a script of two marker lines came back as one scene whose
\* text holds the marker words.
C13_Witness ==
    /\ parsed
    /\ Len(content) = 2
    /\ \A k \in DOMAIN content : IsMarkerLine(content[k])
    /\ Len(script_scenes) = 1
    /\ MarkerWord \in Range(script_scenes[1].text)

(***************************************************************************)
(* Reading the script file (SpecDecode)                                    *)
(***************************************************************************)
InitDecode ==
    /\ script_bytes \in SeqsUpTo(ByteValues, MaxBytes)
    /\ decoded = NotRead
    /\ content = <<>>
    /\ script_scenes = <<>>
    /\ parsed = FALSE
    /\ IdleRefine
    /\ IdleCache
    /\ IdleMatch
    /\ IdleTask

\* The first part of parse_script_file: content is read, or the call raises.
ReadScript ==
    /\ decoded.status = "none"
    /\ decoded' = ReadScriptFile(script_bytes)
    /\ UNCHANGED <<content, script_scenes, parsed, script_bytes, refineVars,
                   validateVars, cacheVars, matchVars, taskVars>>

NextDecode == ReadScript

SpecDecode == InitDecode /\ [][NextDecode]_vars

\* C26: the encodings are tried in the order UTF-8, latin-1, cp1252,
\* iso-8859-1; the attempts stop at the first that decodes, whose text is the
\* content; the call fails exactly when none of the four decodes the bytes.
C26_FirstEncodingWins ==
    decoded.status # "none" =>
        LET order == <<"utf-8", "latin-1", "cp1252", "iso-8859-1">>
            n == Len(decoded.tried)
        IN  /\ n >= 1
            /\ decoded.tried = SubSeq(order, 1, n)
            /\ \A k \in 1..(n - 1) : ~Decode(order[k], script_bytes).ok
            /\ decoded.status = "read" =>
                  /\ Decode(order[n], script_bytes).ok
                  /\ decoded.encoding = order[n]
                  /\ decoded.text = Decode(order[n], script_bytes).text
            /\ decoded.status = "decode_error"
                  <=> \A k \in DOMAIN order : ~Decode(order[k], script_bytes).ok

\* C26 witness: bytes that are not UTF-8, and that cp1252 could not decode
\* either, were read as latin-1 on the second attempt.
C26_Witness ==
    /\ decoded.status = "read"
    /\ decoded.tried = <<"utf-8", "latin-1">>
    /\ ~Cp1252Decode(script_bytes).ok
    /\ decoded.text = script_bytes
    /\ Len(script_bytes) = 3

(***************************************************************************)
(* The model cache: one caller (SpecCache), two callers sharing the cache  *)
(* (SpecCacheConc)                                                         *)
(***************************************************************************)
InitCallers(callers) ==
    /\ alignment_models = {}
    /\ pc = [p \in callers |-> "idle"]
    /\ model_name = [p \in callers |-> 1]
    /\ found = [p \in callers |-> FALSE]
    /\ outcome = [p \in callers |-> "none"]
    /\ cached_before = [p \in callers |-> {}]
    /\ IdleRefine
    /\ IdleParse
    /\ IdleMatch
    /\ IdleTask

NextCache ==
    \/ \E p \in DOMAIN pc, m \in ModelNames : Call(p, m)
    \/ \E p \in DOMAIN pc : CheckCached(p)
    \/ \E p \in DOMAIN pc : CheckFull(p)
    \/ \E p \in DOMAIN pc : Clear(p)
    \/ \E p \in DOMAIN pc : Load(p)
    \/ \E p \in DOMAIN pc : LoadFails(p)
    \/ \E p \in DOMAIN pc : Store(p)
    \/ \E p \in DOMAIN pc : Return(p)

InitCache == InitCallers({"job1"})
SpecCache == InitCache /\ [][NextCache]_vars

InitCacheConc == InitCallers({"job1", "job2"})
SpecCacheConc == InitCacheConc /\ [][NextCache]_vars

Returned(p) == pc[p] = "idle" /\ outcome[p] = "model"

\* C7: with calls one after another the cache never holds more than
\* ML_MODEL_CACHE_SIZE models; a call that returns a model for a cached name
\* leaves the cache as it was, and one for an uncached name leaves exactly
\* that model when the cache was at capacity (the cache plus that model
\* otherwise).
C7_CacheBounded ==
    /\ Cardinality(alignment_models) <= ML_MODEL_CACHE_SIZE
    /\ \A p \in DOMAIN pc :
         Returned(p) =>
            IF model_name[p] \in cached_before[p]
            THEN alignment_models = cached_before[p]
            ELSE IF Cardinality(cached_before[p]) >= ML_MODEL_CACHE_SIZE
            THEN alignment_models = {model_name[p]}
            ELSE alignment_models = cached_before[p] \cup {model_name[p]}

\* C7 witness: a call for an uncached name met a full cache and returned.
C7_Witness ==
    \E p \in DOMAIN pc :
        /\ Returned(p)
        /\ Cardinality(cached_before[p]) = ML_MODEL_CACHE_SIZE
        /\ model_name[p] \notin cached_before[p]
        /\ alignment_models = {model_name[p]}

\* C28: a call that ends in a load error leaves the cache as it found it.
C28_LoadErrorKeepsCache ==
    \A p \in DOMAIN pc :
        (pc[p] = "idle" /\ outcome[p] = "load_error")
            => alignment_models = cached_before[p]

\* C8: with two callers on the shared cache, the model a caller has found
\* cached and is about to return can be taken away under it, and then only
\* by the other caller's full-cache eviction.
C8_EvictedUnderReader ==
    [][\A p \in DOMAIN pc :
          (pc[p] = "return" /\ model_name[p] \in alignment_models
                /\ model_name[p] \notin alignment_models')
          => \E q \in DOMAIN pc \ {p} : pc[q] = "clear" /\ pc'[q] = "load"]_vars

\* C8 witness: a caller that found its model cached ended with a KeyError.
C8_Witness ==
    \E p \in DOMAIN pc :
        /\ pc[p] = "idle"
        /\ found[p]
        /\ outcome[p] = "key_error"

(***************************************************************************)
(* The matcher, then the refiner and the validator (SpecMatch)             *)
(***************************************************************************)
\* Cosine values: opposite, similar, identical.
SimVals == {-1000, 700, 1000}

\* The transcript's candidate segments: three singles and the window over
\* them.
SegmentPool ==
    << [segment_id |-> 1, start_time |-> 0,  end_time |-> 10, confidence |-> 1000],
       [segment_id |-> 2, start_time |-> 0,  end_time |-> 30, confidence |-> 500],
       [segment_id |-> 3, start_time |-> 10, end_time |-> 20, confidence |-> 0],
       [segment_id |-> 4, start_time |-> 20, end_time |-> 30, confidence |-> 500] >>

\* Scene i as parse_script_file numbers it, with 25 words per ten seconds
\* of speech.
SceneAt(i) == [scene_number |-> IF i = 1 THEN 1 ELSE i - 1, word_count |-> 25 * (i - 1)]

\* The embeddings are arguments of their own: as many rows as scenes and
\* columns as segments, except that next to an empty collection the caller's
\* embeddings may be empty or not.
EmbeddingCounts(n) == IF n = 0 THEN {0, 1} ELSE {n}

InitMatch ==
    /\ \E ns \in 0..MaxScenes, nseg \in 0..Len(SegmentPool) :
          \E rows \in EmbeddingCounts(ns), cols \in EmbeddingCounts(nseg) :
            /\ rows * cols <= MaxCells
            /\ scenes = [i \in 1..ns |-> SceneAt(i)]
            /\ segments = SubSeq(SegmentPool, 1, nseg)
            /\ similarity_matrix \in [1..rows -> [1..cols -> SimVals]]
    /\ matched = FALSE
    /\ match_raised = FALSE
    /\ IdleRefine
    /\ IdleParse
    /\ IdleCache
    /\ IdleTask

\* The rankings argsort may give each scene; a scene without a row has none.
SceneRankings(scs, sim) ==
    [i \in DOMAIN scs |-> IF i <= Len(sim) THEN Rankings(sim[i]) ELSE {<<>>}]

\* alignments = perform_semantic_matching(scenes, segments, ...): every
\* iteration of the loop went through.
Match ==
    /\ ~matched /\ ~match_raised
    /\ \E rk \in [DOMAIN scenes -> UNION Range(SceneRankings(scenes, similarity_matrix))] :
          /\ \A i \in DOMAIN scenes :
                /\ rk[i] \in SceneRankings(scenes, similarity_matrix)[i]
                /\ ~IndexErrorAt(segments, similarity_matrix, i, rk[i])
          /\ heap' = [i \in DOMAIN scenes |->
                         MatchScene(scenes, segments, similarity_matrix, i, rk[i])]
    /\ alignments' = [i \in DOMAIN scenes |-> i]
    /\ before' = heap'
    /\ before_list' = alignments'
    /\ matched' = TRUE
    /\ UNCHANGED <<refined_alignments, calls, validateVars, parseVars, cacheVars,
                   scenes, segments, similarity_matrix, match_raised, taskVars>>

\* cosine_similarity is library code: handed an embedding array without rows
\* or without columns it may reject it.
EmptyEmbeddings(sim) == sim = <<>> \/ \E i \in DOMAIN sim : sim[i] = <<>>

\* perform_semantic_matching raises: the library rejects the embeddings, or
\* an iteration of the loop indexes out of range.
MatchRaises ==
    /\ ~matched /\ ~match_raised
    /\ \/ EmptyEmbeddings(similarity_matrix)
       \/ \E i \in DOMAIN scenes :
             \E r \in SceneRankings(scenes, similarity_matrix)[i] :
                IndexErrorAt(segments, similarity_matrix, i, r)
    /\ match_raised' = TRUE
    /\ UNCHANGED <<refineVars, validateVars, parseVars, cacheVars,
                   scenes, segments, similarity_matrix, matched, taskVars>>

NextMatch == Match \/ MatchRaises \/ Refine \/ Validate

SpecMatch == InitMatch /\ [][NextMatch]_vars

\* C2: every alignment's confidence is within [0, 1] after matching and
\* after refinement.
C2_ConfidenceInUnitInterval ==
    matched =>
        \A r \in DOMAIN heap : 0 <= heap[r].confidence /\ heap[r].confidence <= Unit

\* C15: with no scenes or no segments the matcher raises and produces no
\* alignments: it never returns.
C15_EmptyInputRejected ==
    (scenes = <<>> \/ segments = <<>>) => ~matched

\* A step in which validate_alignment_quality returns, and the list it was
\* given.
ValidateReturns == report.status = "none" /\ report'.status = "success"
Validated == IF calls = 0 THEN alignments ELSE refined_alignments

\* The three triggers, read off a report.
ScoreTrigger(rep) == rep.quality_score < 600
LowTrigger(rep) == 10 * rep.low_confidence > 3 * rep.total_scenes
ConflictTrigger(rep) == 10 * rep.temporal_conflicts > rep.total_scenes

\* C23: needs_manual_review is true exactly when quality_score < 0.6, or
\* low_confidence > 0.3 * total_scenes, or temporal_conflicts > 0.1 *
\* total_scenes, where quality_score = 0.5 * average_confidence + 0.3 *
\* high_confidence_ratio + 0.2 * temporal_consistency and, for a non-empty
\* list, temporal_consistency = 1 - temporal_conflicts / total_scenes.
C23_ReviewIffAnyTrigger ==
    [][ValidateReturns =>
          LET n == Len(Validated)
              sum == SumConfidence(heap, Validated)
              high == Cardinality({i \in 1..n : heap[Validated[i]].confidence > 800})
              conflicts == Cardinality({i \in 1..n :
                               heap[Validated[i]].temporal_conflict = "true"})
          IN  /\ report'.needs_manual_review
                    <=> (ScoreTrigger(report') \/ LowTrigger(report')
                            \/ ConflictTrigger(report'))
              /\ report'.total_scenes = n
              /\ report'.temporal_conflicts = conflicts
              /\ n > 0 =>
                    /\ report'.temporal_consistency = (Unit * (n - conflicts)) \div n
                    /\ report'.quality_score
                          = (5 * sum + 3 * Unit * high + 2 * Unit * (n - conflicts))
                               \div (10 * n)]_vars

\* C23 witness: a report that asks for review on the strength of one trigger
\* alone.
C23_Witness ==
    /\ report.status = "success"
    /\ report.total_scenes = 2
    /\ report.needs_manual_review
    /\ ~ScoreTrigger(report) /\ ~LowTrigger(report) /\ ConflictTrigger(report)

\* C24: every alignment is counted in exactly one of high (> 0.8), medium
\* (0.5 to 0.8, both ends included) and low (< 0.5), so the three counts add
\* up to total_scenes.
C24_BucketsPartition ==
    [][ValidateReturns =>
          LET n == Len(Validated)
              conf == [i \in 1..n |-> heap[Validated[i]].confidence]
          IN  /\ report'.high_confidence = Cardinality({i \in 1..n : conf[i] > 800})
              /\ report'.medium_confidence
                    = Cardinality({i \in 1..n : conf[i] >= 500 /\ conf[i] <= 800})
              /\ report'.low_confidence = Cardinality({i \in 1..n : conf[i] < 500})
              /\ report'.high_confidence + report'.medium_confidence
                    + report'.low_confidence = report'.total_scenes
              /\ report'.total_scenes = n]_vars

\* C24 witness: a validated list holding a confidence of exactly 0.8 and one
\* of exactly 0.5, both counted as medium.
C24_Witness ==
    /\ report.status = "success"
    /\ calls = 0
    /\ \E i \in DOMAIN alignments : heap[alignments[i]].confidence = 800
    /\ \E i \in DOMAIN alignments : heap[alignments[i]].confidence = 500
    /\ report.medium_confidence = 2
    /\ report.total_scenes = 2

\* C30: refinement never raises a confidence: every alignment's confidence
\* after the call is at most the composite confidence the matcher gave it.
C30_ConfidenceNeverRaised ==
    calls = 1 =>
        \A i \in DOMAIN alignments :
            heap[alignments[i]].confidence <= before[alignments[i]].confidence

\* C10: one alignment per scene in scene order; the primary match has
\* maximal similarity in the scene's row; the alternatives are the segments
\* ranked second and third, min(2, segments - 1) of them, none the primary.
C10_PrimaryAndAlternatives ==
    (matched /\ calls = 0) =>
        /\ Len(alignments) = Len(scenes)
        /\ \A i \in DOMAIN alignments :
             LET a == heap[alignments[i]]
                 row == similarity_matrix[i]
                 alts == a.alternative_matches
                 chosen == {a.matched_segment_id} \cup {alts[k].segment_id : k \in DOMAIN alts}
             IN  /\ a.scene_number = scenes[i].scene_number
                 /\ \A j \in DOMAIN row : row[a.matched_segment_id] >= row[j]
                 /\ Len(alts) = Min(2, Len(segments) - 1)
                 /\ Cardinality(chosen) = Len(alts) + 1
                 /\ \A k \in DOMAIN alts :
                      /\ alts[k].confidence = row[alts[k].segment_id]
                      /\ alts[k].start_time = segments[alts[k].segment_id].start_time
                      /\ alts[k].end_time = segments[alts[k].segment_id].end_time
                      /\ k > 1 => alts[k - 1].confidence >= alts[k].confidence
                      /\ \A j \in DOMAIN row \ chosen : alts[k].confidence >= row[j]

\* C10 witness: two scenes matched against three segments, a scene whose
\* three segments have three different similarities.
C10_Witness ==
    /\ matched /\ calls = 0
    /\ Len(alignments) = 2 /\ Len(segments) = 3
    /\ \E i \in DOMAIN alignments :
          LET a == heap[alignments[i]]
          IN  /\ Len(a.alternative_matches) = 2
              /\ a.confidence_factors.semantic_similarity > a.alternative_matches[1].confidence
              /\ a.alternative_matches[1].confidence > a.alternative_matches[2].confidence

(***************************************************************************)
(* One invocation of align_script_to_video (SpecTask)                      *)
(***************************************************************************)
TaskScripts ==
    { <<>>,
      << <<"a", "b">> >>,
      << <<MarkerWord>>, <<"a">>, <<MarkerWord, "b">>, <<"b", "a">> >>,
      << <<MarkerWord>> >> }

BaseSegmentPool ==
    << [start |-> 0,  end |-> 10, words |-> 25, confidence |-> 1000],
       [start |-> 10, end |-> 20, words |-> 25, confidence |-> 0],
       [start |-> 20, end |-> 30, words |-> 25, confidence |-> 500] >>

WordPool ==
    << [word |-> "a", start |-> 0,  end |-> 4,  confidence |-> 1000],
       [word |-> "b", start |-> 4,  end |-> 11, confidence |-> 500],
       [word |-> "a", start |-> 11, end |-> 12, confidence |-> 0] >>

TaskTranscripts ==
    { [segments |-> SubSeq(BaseSegmentPool, 1, n), words |-> <<>>] :
          n \in 0..Len(BaseSegmentPool) }
    \cup { [segments |-> <<>>, words |-> WordPool] }

TaskSimVals == {400, 1000}

\* The model for the default name may already be cached by an earlier task
\* of the worker.
InitTask ==
    /\ content \in TaskScripts
    /\ script_scenes = <<>>
    /\ parsed = FALSE
    /\ script_bytes = <<>>
    /\ decoded = NotRead
    /\ transcript_data \in TaskTranscripts
    /\ transcript_segments = <<>>
    /\ transcript_outcome = "none"
    /\ task = [pc |-> "parsing_script", state |-> "PENDING", percent |-> 0,
               stage |-> "none", raised |-> FALSE,
               runs |-> [k \in Range(StageNames) |-> 0], result |-> NoResult]
    /\ alignment_models \in {{}, {1}}
    /\ pc = <<>> /\ model_name = <<>> /\ found = <<>>
    /\ outcome = <<>> /\ cached_before = <<>>
    /\ IdleRefine
    /\ IdleMatch

\* script_scenes = parse_script_file(script_path)
ParseStage ==
    /\ task.pc = "parsing_script"
    /\ script_scenes' = ParseScriptFile(content)
    /\ parsed' = TRUE
    /\ task' = StageDone(task)
    /\ UNCHANGED <<content, script_bytes, decoded, refineVars, validateVars, cacheVars,
                   matchVars, taskVarsData>>

\* transcript_segments = process_transcript_segments(transcript_data)
TranscriptStage ==
    /\ task.pc = "processing_transcript"
    /\ ~NoTranscriptData(transcript_data)
    /\ transcript_segments' = process_transcript_segments(transcript_data)
    /\ transcript_outcome' = "returned"
    /\ task' = StageDone(task)
    /\ UNCHANGED <<refineVars, validateVars, parseVars, cacheVars, matchVars,
                   transcript_data>>

\* process_transcript_segments raises: no segments and no words.
TranscriptMissing ==
    /\ task.pc = "processing_transcript"
    /\ NoTranscriptData(transcript_data)
    /\ transcript_outcome' = "no_transcript_data"
    /\ task' = OnException(EnterStage(task))
    /\ UNCHANGED <<refineVars, validateVars, parseVars, cacheVars, matchVars,
                   transcript_data, transcript_segments>>

\* compute_scene_embeddings and compute_segment_embeddings: both get the
\* default model; the embeddings are kept as the cosines between them.
EmbeddingStage ==
    /\ task.pc = "computing_embeddings"
    /\ alignment_models' = CacheAfterGet(CacheAfterGet(alignment_models, 1), 1)
    /\ scenes' = script_scenes
    /\ segments' = transcript_segments
    /\ similarity_matrix' \in
          [DOMAIN script_scenes -> [DOMAIN transcript_segments -> TaskSimVals]]
    /\ task' = StageDone(task)
    /\ UNCHANGED <<refineVars, validateVars, parseVars, matched, match_raised,
                   taskVarsData, pc, model_name, found, outcome, cached_before>>

\* alignments = perform_semantic_matching(...)
MatchingStage ==
    /\ task.pc = "matching_scenes"
    /\ \E rk \in [DOMAIN scenes -> Perms(Len(segments))] :
          /\ \A i \in DOMAIN scenes : rk[i] \in Rankings(similarity_matrix[i])
          /\ heap' = [i \in DOMAIN scenes |->
                         MatchScene(scenes, segments, similarity_matrix, i, rk[i])]
    /\ alignments' = [i \in DOMAIN scenes |-> i]
    /\ before' = heap'
    /\ before_list' = alignments'
    /\ matched' = TRUE
    /\ task' = StageDone(task)
    /\ UNCHANGED <<refined_alignments, calls, validateVars, parseVars, cacheVars,
                   scenes, segments, similarity_matrix, match_raised, taskVarsData>>

\* refined_alignments = refine_alignment_temporal(alignments, transcript_data)
RefiningStage ==
    /\ task.pc = "refining_alignment"
    /\ before' = heap
    /\ before_list' = alignments
    /\ refined_alignments' = RefinedList(heap, alignments)
    /\ heap' = RefinedHeap(heap, alignments)
    /\ calls' = calls + 1
    /\ task' = StageDone(task)
    /\ UNCHANGED <<alignments, validateVars, parseVars, cacheVars, matchVars,
                   taskVarsData>>

\* update_state(percent 100, "completed") and the return of the result.
CompleteStage ==
    /\ task.pc = "completed"
    /\ task' = [Progress(task, 100, "completed") EXCEPT
                    !.pc = "returned",
                    !.result = SuccessResult(heap, refined_alignments,
                                             Len(script_scenes), Len(transcript_segments))]
    /\ UNCHANGED <<refineVars, validateVars, parseVars, cacheVars, matchVars,
                   taskVarsData>>

\* Something called in the current stage raises (the file cannot be read or
\* decoded, the model cannot be loaded, a library call fails).
StageRaises ==
    /\ task.pc \in Range(StageNames)
    /\ task' = OnException(EnterStage(task))
    /\ UNCHANGED <<refineVars, validateVars, parseVars, cacheVars, matchVars,
                   taskVarsData>>

NextTask ==
    \/ ParseStage
    \/ TranscriptStage
    \/ TranscriptMissing
    \/ EmbeddingStage
    \/ MatchingStage
    \/ RefiningStage
    \/ CompleteStage
    \/ StageRaises

SpecTask == InitTask /\ [][NextTask]_vars

\* C9: a failed invocation has reported FAILURE, raised, and returned
\* nothing; no stage runs twice; a result with alignments exists only once
\* every stage has run, and it is the refined list.
C9_AllOrNothing ==
    /\ \A k \in DOMAIN StageNames : task.runs[StageNames[k]] <= 1
    /\ task.raised <=> task.pc = "failed"
    /\ task.pc = "failed" => (task.state = "FAILURE" /\ task.result = NoResult)
    /\ task.result # NoResult =>
          /\ task.pc = "returned"
          /\ task.result.status = "success"
          /\ \A k \in DOMAIN StageNames : task.runs[StageNames[k]] = 1
          /\ calls = 1
          /\ task.result.alignments = refined_alignments
          /\ Len(task.result.alignments) = Len(script_scenes)

\* C9 witness: the refinement stage failed after the matcher had built its
\* alignments, and nothing was returned.
C9_Witness ==
    /\ task.pc = "failed"
    /\ task.runs["refining_alignment"] = 1
    /\ matched /\ Len(alignments) = 2
    /\ task.result = NoResult

\* The stages entered so far, as a number: they are the first so many.
StagesEntered ==
    Cardinality({k \in DOMAIN StageNames : task.runs[StageNames[k]] >= 1})

\* C27: the stages are entered in the listed order, each once and only when
\* the one before it has returned its output; every progress report carries
\* a higher percentage than the one before (10, 30, 50, 70, 90, 100), and
\* "completed" is reported only after the refinement has returned.
C27_StagesInOrder ==
    /\ [](/\ \A k \in DOMAIN StageNames :
                task.runs[StageNames[k]] = (IF k <= StagesEntered THEN 1 ELSE 0)
          /\ task.state = "PROGRESS" =>
                /\ task.percent = (IF task.stage = "completed" THEN 100
                                   ELSE <<10, 30, 50, 70, 90>>[StagesEntered])
                /\ task.stage = (IF task.percent = 100 THEN "completed"
                                 ELSE StageNames[StagesEntered])
          /\ task.runs["processing_transcript"] = 1 => parsed
          /\ task.runs["computing_embeddings"] = 1 => transcript_outcome = "returned"
          /\ task.runs["matching_scenes"] = 1 =>
                (scenes = script_scenes /\ segments = transcript_segments)
          /\ task.runs["refining_alignment"] = 1 => matched
          /\ task.stage = "completed" => (calls = 1 /\ StagesEntered = 5))
    /\ [][task'.state = "PROGRESS" => task'.percent > task.percent]_vars

\* C27 witness: the run reported "completed" at 100 percent and returned.
C27_Witness ==
    /\ task.pc = "returned"
    /\ task.stage = "completed"
    /\ task.percent = 100
    /\ Len(refined_alignments) = 2

\* The stage that was running when the invocation failed: the last one
\* entered.
FailedStage ==
    StageNames[Cardinality({k \in DOMAIN StageNames : task.runs[StageNames[k]] >= 1})]

\* C16: the failure reported names the stage in which the error occurred.
C16_FailureNamesStage ==
    task.pc = "failed" => (task.state = "FAILURE" /\ task.stage = FailedStage)

\* C17: a successful run returns status "completed" and one alignment per
\* script scene.
C17_CompletedOnePerScene ==
    task.pc = "returned" =>
        /\ task.result.status = "completed"
        /\ Len(task.result.alignments) = Len(script_scenes)

\* C18: when every scene's match came out of the matcher below the
\* threshold, the run still returns, with status "completed" and a true
\* top-level requires_manual_review.
C18_LowConfidenceFlagsResult ==
    (/\ task.pc = "returned"
     /\ \A i \in DOMAIN alignments :
           before[alignments[i]].confidence < ALIGNMENT_CONFIDENCE_THRESHOLD)
    => /\ task.result.status = "completed"
       /\ task.result.requires_manual_review = "true"

(***************************************************************************)
(* The transcript segmenter on its own (SpecTranscript)                    *)
(***************************************************************************)
\* The k-th segment and the k-th word of a transcription: ten seconds of
\* speech per segment, four seconds per word.
TranscriptSegmentAt(k) ==
    [start |-> 10 * (k - 1), end |-> 10 * k, words |-> 25,
     confidence |-> (k * 300) % (Unit + 1)]
TranscriptWordAt(k) ==
    [word |-> IF k % 2 = 1 THEN "a" ELSE "b", start |-> 4 * (k - 1), end |-> 4 * k,
     confidence |-> (k * 300) % (Unit + 1)]

\* A stretch of the transcription: items first + 1 .. first + n.
SegmentStretch(first, n) == [i \in 1..n |-> TranscriptSegmentAt(first + i)]
WordStretch(first, n) == [i \in 1..n |-> TranscriptWordAt(first + i)]

\* A token the transcription repeats with the same timestamps: n equal word
\* records.
RepeatedWord(k, n) == [i \in 1..n |-> TranscriptWordAt(k)]

Transcripts ==
    { [segments |-> SegmentStretch(a, n), words |-> WordStretch(b, m)] :
          a \in 0..MaxBase, n \in 0..MaxBase, b \in 0..MaxWords, m \in 0..MaxWords }
    \cup { [segments |-> <<>>, words |-> WordStretch(0, m) \o RepeatedWord(m + 1, n)] :
              m \in 0..MaxWords, n \in 2..MaxWords }

InitTranscript ==
    /\ \E td \in Transcripts :
          /\ td.segments # <<>> => td.segments[Len(td.segments)].end <= 10 * MaxBase
          /\ td.words # <<>> => td.words[Len(td.words)].end <= 4 * MaxWords
          /\ transcript_data = td
    /\ transcript_segments = <<>>
    /\ transcript_outcome = "none"
    /\ task = [pc |-> "idle", state |-> "PENDING", percent |-> 0, stage |-> "none",
               raised |-> FALSE, runs |-> <<>>, result |-> NoResult]
    /\ IdleRefine
    /\ IdleParse
    /\ IdleCache
    /\ IdleMatch

\* process_transcript_segments(transcript_data) returns
ProcessTranscript ==
    /\ transcript_outcome = "none"
    /\ ~NoTranscriptData(transcript_data)
    /\ transcript_segments' = process_transcript_segments(transcript_data)
    /\ transcript_outcome' = "returned"
    /\ UNCHANGED <<refineVars, validateVars, parseVars, cacheVars, matchVars,
                   transcript_data, task>>

\* process_transcript_segments(transcript_data) raises
ProcessTranscriptRaises ==
    /\ transcript_outcome = "none"
    /\ NoTranscriptData(transcript_data)
    /\ transcript_outcome' = "no_transcript_data"
    /\ UNCHANGED <<refineVars, validateVars, parseVars, cacheVars, matchVars,
                   transcript_data, transcript_segments, task>>

NextTranscript == ProcessTranscript \/ ProcessTranscriptRaises

SpecTranscript == InitTranscript /\ [][NextTranscript]_vars

IsSingle(s) == s.window_type = "single"
IsWindow(s) == s.window_type = "window"

\* C11: a transcript with n > 0 segments yields n "single" entries, single_0
\* to single_{n-1}, each with its segment's times, and max(0, n - 3 + 1)
\* "window" entries, window i running from segment i's start to segment
\* i + 2's end; there are no other entries.
C11_SinglesAndWindows ==
    (transcript_outcome = "returned" /\ transcript_data.segments # <<>>) =>
        LET segs == transcript_data.segments
            n == Len(segs)
            singles == SelectSeq(transcript_segments, IsSingle)
            windows == SelectSeq(transcript_segments, IsWindow)
        IN  /\ Len(transcript_segments) = Len(singles) + Len(windows)
            /\ Len(singles) = n
            /\ \A k \in 1..n :
                  /\ singles[k].segment_id = <<"single", k - 1>>
                  /\ singles[k].start_time = segs[k].start
                  /\ singles[k].end_time = segs[k].end
            /\ Len(windows) = Max(0, n - 3 + 1)
            /\ \A k \in DOMAIN windows :
                  /\ windows[k].segment_id = <<"window", k - 1, k + 1>>
                  /\ windows[k].start_time = segs[k].start
                  /\ windows[k].end_time = segs[k + 2].end

\* C11 witness: four segments gave four singles and two windows.
C11_Witness ==
    /\ transcript_outcome = "returned"
    /\ Len(transcript_data.segments) = 4
    /\ Len(SelectSeq(transcript_segments, IsSingle)) = 4
    /\ Len(SelectSeq(transcript_segments, IsWindow)) = 2

\* The number of words in the first k segments.
RECURSIVE WordsUpTo(_, _)
WordsUpTo(base, k) == IF k = 0 THEN 0 ELSE base[k].words + WordsUpTo(base, k - 1)

\* C25: the segments made from a word list split it into consecutive groups
\* (each segment runs from its first word's start to its last word's end and
\* the group sizes add up to the number of words), and every segment but the
\* last spans at least 10 seconds.
C25_WordsGroupedToTarget ==
    (/\ transcript_outcome = "returned"
     /\ transcript_data.segments = <<>>
     /\ transcript_data.words # <<>>) =>
        LET ws == transcript_data.words
            base == SelectSeq(transcript_segments, IsSingle)
        IN  /\ WordsUpTo(base, Len(base)) = Len(ws)
            /\ \A k \in DOMAIN base :
                  /\ base[k].words >= 1
                  /\ WordsUpTo(base, k) <= Len(ws)
                  /\ base[k].start_time = ws[WordsUpTo(base, k - 1) + 1].start
                  /\ base[k].end_time = ws[WordsUpTo(base, k)].end
                  /\ k < Len(base) => base[k].end_time - base[k].start_time >= 10

\* C14: the call fails with the no-transcript-data error exactly when there
\* are neither segments nor words; with either it returns a non-empty list.
C14_FailsOnlyWithoutData ==
    transcript_outcome # "none" =>
        /\ transcript_outcome = "no_transcript_data"
              <=> (transcript_data.segments = <<>> /\ transcript_data.words = <<>>)
        /\ transcript_outcome = "no_transcript_data" => transcript_segments = <<>>
        /\ (transcript_data.segments # <<>> \/ transcript_data.words # <<>>)
              => (transcript_outcome = "returned" /\ transcript_segments # <<>>)

\* C14 witness: no segments, but words, and a non-empty list came back.
C14_Witness ==
    /\ transcript_outcome = "returned"
    /\ transcript_data.segments = <<>>
    /\ Len(transcript_data.words) >= 3
    /\ transcript_segments # <<>>

====
